---- MODULE Spec2Model ----
(***************************************************************************)
(* Model of the logger crate (src/src/lib.rs): one Logger, i.e. a          *)
(* Mutex<Inner> holding the active destination, the threads that call      *)
(* log / flush / swap / Debug::fmt on it, and the part of the `log` facade *)
(* the crate drives (set_logger, the max-level filter).                    *)
(*                                                                         *)
(* A destination's content is the sequence of fragments handed to it, one  *)
(* per write_str call of the formatting machinery.                         *)
(***************************************************************************)
EXTENDS Integers, Sequences, FiniteSets, TLC

VARIABLES
    ctor,        \* how the Logger was constructed: "LOGGER" | "stderr" | "new"
    inner,       \* the Inner value inside the mutex: the active destination
    owner,       \* the thread whose MutexGuard is alive, or NoThread
    poisoned,    \* the mutex's poison flag
    registered,  \* the facade's logger slot is set (log::set_logger succeeded)
    maxLevel,    \* the facade's global max level filter
    out,         \* out[d]: the fragments written to destination d so far
    pc,          \* pc[t]: where thread t is
    call,        \* call[t]: the operation thread t is executing and its arguments
    todo,        \* todo[t]: fragments of the current line not yet written
    hist,        \* history: the records that entered the critical section of log, in lock order
    flushed,     \* the destinations whose writer's flush() has been called
    calls        \* number of log/flush/swap/fmt calls started so far

vars == <<ctor, inner, owner, poisoned, registered, maxLevel, out, pc, call,
          todo, hist, flushed, calls>>

-----------------------------------------------------------------------------
(* Bounds of the model *)

MaxCalls == 3

Threads == {"t1", "t2"}
NoThread == "none"
Buffers == {"B1", "B2"}
Dests == {"Stdout", "Stderr"} \cup Buffers
Msgs == {"ready"}
Clock == {86399}

-----------------------------------------------------------------------------
(* The facade's levels (log::Level / log::LevelFilter, by severity order) *)

LevelOff == 0
LevelError == 1
LevelWarn == 2
LevelInfo == 3
LevelDebug == 4
LevelTrace == 5
Levels == LevelError..LevelTrace

\* the levels of the records each thread logs
LevelsOf(t) ==
    IF t = "t1" THEN {LevelError, LevelInfo, LevelTrace}
                ELSE {LevelWarn, LevelInfo, LevelDebug}
\* the filters the host program sets
Filters == {LevelWarn, LevelTrace}

\* enum Inner: the variant of a destination
Variant(d) == IF d \in Buffers THEN "Other" ELSE d

\* std::thread::current().name().unwrap_or("unknown")
ThreadName(t) ==
    CASE t = "t1" -> "other"
      [] OTHER    -> "unknown"

RESET_COLOR == "\\x1b[0m"

\* the match on record.level(): the color escape
Color(lvl) ==
    CASE lvl = LevelInfo  -> "\\x1B[97m"
      [] lvl = LevelDebug -> "\\x1B[36m"
      [] lvl = LevelError -> "\\x1B[31m"
      [] lvl = LevelWarn  -> "\\x1B[33m"
      [] lvl = LevelTrace -> "\\x1B[97m"

\* Faulty variant: Trace shares the tag of Info
LabelCross(lvl) ==
    CASE lvl = LevelInfo  -> "INF"
      [] lvl = LevelDebug -> "DBG"
      [] lvl = LevelError -> "ERR"
      [] lvl = LevelWarn  -> "WRN"
      [] lvl = LevelTrace -> "INF"

\* the match on record.level(): the label
Label(lvl) ==
    CASE lvl = LevelInfo  -> "INF"
      [] lvl = LevelDebug -> "DBG"
      [] lvl = LevelError -> "ERR"
      [] lvl = LevelWarn  -> "WRN"
      [] lvl = LevelTrace -> "TRC"

Digit(n) == <<"0", "1", "2", "3", "4", "5", "6", "7", "8", "9">>[n + 1]
TwoDigits(n) == Digit(n \div 10) \o Digit(n % 10)

\* Utc::now().format("%H:%M:%S"), now in seconds since the epoch
FormatTime(now) ==
    TwoDigits((now \div 3600) % 24) \o ":" \o TwoDigits((now \div 60) % 60)
        \o ":" \o TwoDigits(now % 60)

\* The fragments println! / writeln! / eprintln! emit for one record, per variant
FormatLine(variant, lvl, name, msg, now) ==
    CASE variant = "Stdout" ->
            <<FormatTime(now), Color(lvl), " ", name, " [", Label(lvl), "]",
              RESET_COLOR, " ", msg, "\n">>
      [] variant = "Other" ->
            <<FormatTime(now), " ", name, " [", Label(lvl), "] ", msg, "\n">>
      [] variant = "Stderr" ->
            <<FormatTime(now), Color(lvl), " ", name, " [", Label(lvl), "] ",
              RESET_COLOR, " ", msg, "\n">>

-----------------------------------------------------------------------------
NoCall == [op |-> "none", level |-> 0, msg |-> "", buf |-> "", h |-> 0]

Init ==
    /\ ctor \in {"LOGGER", "stderr", "new"}
    /\ inner = CASE ctor = "LOGGER" -> "Stdout"
                 [] ctor = "stderr" -> "Stderr"
                 [] ctor = "new"    -> "B1"
    /\ owner = NoThread
    /\ poisoned = FALSE
    /\ registered = FALSE
    /\ maxLevel = LevelOff
    /\ out = [d \in Dests |-> <<>>]
    /\ pc = [t \in Threads |-> "idle"]
    /\ call = [t \in Threads |-> NoCall]
    /\ todo = [t \in Threads |-> <<>>]
    /\ hist = <<>>
    /\ flushed = {}
    /\ calls = 0

-----------------------------------------------------------------------------
(* std::sync::Mutex *)

\* Faulty variant: a lock that never blocks
MutexFreeBroken == TRUE

\* Mutex::lock blocks until no guard is alive
MutexFree == owner = NoThread

\* The thread's guard is dropped normally: the mutex is unlocked
Release == owner' = NoThread /\ UNCHANGED poisoned

\* Faulty variant: the guard is not dropped when the thread unwinds
PanicReleaseLeak == poisoned' = TRUE /\ UNCHANGED owner

\* The thread panics while its guard is alive: unwinding drops the guard, which
\* sets the poison flag and unlocks the mutex
PanicRelease == owner' = NoThread /\ poisoned' = TRUE

\* Positions at which a thread's MutexGuard is alive
Holding == {"arm", "relock", "deadlock", "held", "write"}

-----------------------------------------------------------------------------
(* Entry points.  A call that takes the mutex moves the thread to "lock". *)

Start(t, c) ==
    /\ pc[t] = "idle"
    /\ calls < MaxCalls
    /\ calls' = calls + 1
    /\ pc' = [pc EXCEPT ![t] = "lock"]
    /\ call' = [call EXCEPT ![t] = c]
    /\ UNCHANGED <<ctor, inner, owner, poisoned, registered, maxLevel, out,
                   todo, hist, flushed>>

\* The facade's log macros: a record reaches Logger::log of the registered
\* logger only when its level passes the max-level filter; a Logger that is not
\* the global one is called directly through the Log trait
Delivered(lvl) == ctor = "LOGGER" => (registered /\ lvl <= maxLevel)

\* Logger::enabled(metadata), for a metadata of level lvl
Enabled(lvl) == TRUE

\* Faulty variant: log composes the line before it takes the mutex
LogCallComposed(t, lvl, msg) ==
    /\ Delivered(lvl)
    /\ pc[t] = "idle"
    /\ calls < MaxCalls
    /\ calls' = calls + 1
    /\ pc' = [pc EXCEPT ![t] = "lock"]
    /\ call' = [call EXCEPT ![t] =
                    [NoCall EXCEPT !.op = "log", !.level = lvl, !.msg = msg]]
    /\ \E now \in Clock :
        todo' = [todo EXCEPT ![t] =
                    FormatLine(Variant(inner), lvl, ThreadName(t), msg, now)]
    /\ UNCHANGED <<ctor, inner, owner, poisoned, registered, maxLevel, out,
                   hist, flushed>>

\* Logger::log is entered: level mapping and thread name, then self.inner()
LogCall(t, lvl, msg) ==
    /\ Delivered(lvl)
    /\ Start(t, [NoCall EXCEPT !.op = "log", !.level = lvl, !.msg = msg])

\* Logger::flush is entered
FlushCall(t) == Start(t, [NoCall EXCEPT !.op = "flush"])

\* swap(buffer) is entered (the global LOGGER only)
SwapCall(t, b) ==
    /\ ctor = "LOGGER"
    /\ Start(t, [NoCall EXCEPT !.op = "swap", !.buf = b])

\* <Logger as Debug>::fmt is entered
FmtCall(t) == Start(t, [NoCall EXCEPT !.op = "fmt"])

-----------------------------------------------------------------------------
(* Logger::inner *)

\* Faulty variant: lock returns a guard although another guard is alive
LockNoBlock(t) ==
    /\ pc[t] = "lock"
    /\ owner' = t
    /\ pc' = [pc EXCEPT ![t] = IF poisoned THEN "arm" ELSE "held"]
    /\ UNCHANGED <<ctor, inner, poisoned, registered, maxLevel, out, call,
                   todo, hist, flushed, calls>>

\* self.0.lock(): Ok(guard) when the mutex is not poisoned, otherwise
\* Err(PoisonError) which still carries the acquired guard
Lock(t) ==
    /\ pc[t] = "lock"
    /\ MutexFree
    /\ owner' = t
    /\ pc' = [pc EXCEPT ![t] = IF poisoned THEN "arm" ELSE "held"]
    /\ UNCHANGED <<ctor, inner, poisoned, registered, maxLevel, out, call,
                   todo, hist, flushed, calls>>

\* The Err(_) arm: self.0.clear_poison().  The PoisonError, and the guard in
\* it, is the match scrutinee's temporary: it is alive until inner returns
ClearPoison(t) ==
    /\ pc[t] = "arm"
    /\ poisoned' = FALSE
    /\ pc' = [pc EXCEPT ![t] = "relock"]
    /\ UNCHANGED <<ctor, inner, owner, registered, maxLevel, out, call, todo,
                   hist, flushed, calls>>

\* The Err(_) arm: the recursive self.inner() locks the mutex this thread
\* already holds.  Mutex::lock does not return then: it deadlocks or panics,
\* depending on the platform
RelockOutcome(t) ==
    \/ /\ pc' = [pc EXCEPT ![t] = "deadlock"]
       /\ UNCHANGED <<owner, poisoned>>
    \/ /\ pc' = [pc EXCEPT ![t] = "panic_relock"]
       /\ PanicRelease

Relock(t) ==
    /\ pc[t] = "relock"
    /\ RelockOutcome(t)
    /\ UNCHANGED <<ctor, inner, registered, maxLevel, out, call, todo, hist, flushed, calls>>

-----------------------------------------------------------------------------
(* Logger::log, with the guard *)

\* Faulty variant: log drops the records below Info itself
LogComposeFiltered(t) ==
    /\ pc[t] = "held"
    /\ call[t].op = "log"
    /\ IF call[t].level > LevelInfo
          THEN /\ Release
               /\ pc' = [pc EXCEPT ![t] = "idle"]
               /\ call' = [call EXCEPT ![t] = NoCall]
               /\ UNCHANGED <<todo, hist>>
          ELSE /\ \E now \in Clock :
                    /\ todo' = [todo EXCEPT ![t] =
                            FormatLine(Variant(inner), call[t].level,
                                       ThreadName(t), call[t].msg, now)]
                    /\ hist' = Append(hist, [thr |-> t, level |-> call[t].level,
                                             msg |-> call[t].msg, dest |-> inner,
                                             time |-> now, n |-> 0])
               /\ call' = [call EXCEPT ![t].h = Len(hist) + 1]
               /\ pc' = [pc EXCEPT ![t] = "write"]
               /\ UNCHANGED <<owner, poisoned>>
    /\ UNCHANGED <<ctor, inner, registered, maxLevel, out, flushed, calls>>

\* match inner_ref: the arguments of the print macro are built (Utc::now())
LogCompose(t) ==
    /\ pc[t] = "held"
    /\ call[t].op = "log"
    /\ \E now \in Clock :
        /\ todo' = [todo EXCEPT ![t] =
                FormatLine(Variant(inner), call[t].level, ThreadName(t),
                           call[t].msg, now)]
        /\ hist' = Append(hist, [thr |-> t, level |-> call[t].level,
                                 msg |-> call[t].msg, dest |-> inner,
                                 time |-> now, n |-> 0])
    /\ call' = [call EXCEPT ![t].h = Len(hist) + 1]
    /\ pc' = [pc EXCEPT ![t] = "write"]
    /\ UNCHANGED <<ctor, inner, owner, poisoned, registered, maxLevel, out, flushed, calls>>

\* Faulty variant: a fragment is put at the start of the destination
LogWriteAtStart(t) ==
    /\ pc[t] = "write"
    /\ out' = [out EXCEPT ![inner] = <<Head(todo[t])>> \o @]
    /\ todo' = [todo EXCEPT ![t] = Tail(@)]
    /\ hist' = [hist EXCEPT ![call[t].h].n = @ + 1]
    /\ IF Len(todo[t]) = 1
          THEN /\ Release
               /\ pc' = [pc EXCEPT ![t] = "idle"]
               /\ call' = [call EXCEPT ![t] = NoCall]
          ELSE UNCHANGED <<owner, poisoned, pc, call>>
    /\ UNCHANGED <<ctor, inner, registered, maxLevel, flushed, calls>>

\* One fragment reaches the destination; after the last one log returns and
\* the guard is dropped
LogWrite(t) ==
    /\ pc[t] = "write"
    /\ out' = [out EXCEPT ![inner] = Append(@, Head(todo[t]))]
    /\ todo' = [todo EXCEPT ![t] = Tail(@)]
    /\ hist' = [hist EXCEPT ![call[t].h].n = @ + 1]
    /\ IF Len(todo[t]) = 1
          THEN /\ Release
               /\ pc' = [pc EXCEPT ![t] = "idle"]
               /\ call' = [call EXCEPT ![t] = NoCall]
          ELSE UNCHANGED <<owner, poisoned, pc, call>>
    /\ UNCHANGED <<ctor, inner, registered, maxLevel, flushed, calls>>

\* The destination fails to take a fragment: err.expect("Cannot write to
\* lock") (or the panic of println!/eprintln!) unwinds the thread
LogWriteFail(t) ==
    /\ pc[t] = "write"
    /\ PanicRelease
    /\ pc' = [pc EXCEPT ![t] = "panic_io"]
    /\ todo' = [todo EXCEPT ![t] = <<>>]
    /\ UNCHANGED <<ctor, inner, registered, maxLevel, out, call, hist, flushed, calls>>

-----------------------------------------------------------------------------
(* Logger::flush, swap and Debug::fmt, with the guard *)

\* Faulty variant: flush is called on the console streams too
FlushTargetsAll(d) == flushed \cup {d}

\* if let Inner::Other(inner) = &mut *inner: the writers flush() is called on
FlushTargets(d) == IF Variant(d) = "Other" THEN flushed \cup {d} ELSE flushed

\* if let Inner::Other(inner) = ... { inner.flush() }: Ok
FlushOk(t) ==
    /\ pc[t] = "held"
    /\ call[t].op = "flush"
    /\ flushed' = FlushTargets(inner)
    /\ Release
    /\ pc' = [pc EXCEPT ![t] = "idle"]
    /\ call' = [call EXCEPT ![t] = NoCall]
    /\ UNCHANGED <<ctor, inner, registered, maxLevel, out, todo, hist, calls>>

\* What the thread does when inner.flush() returns Err:
\* .expect("Cannot flush the logger") panics
FlushErrOutcome(t) ==
    /\ PanicRelease
    /\ pc' = [pc EXCEPT ![t] = "panic_io"]
    /\ UNCHANGED call

FlushErr(t) ==
    /\ pc[t] = "held"
    /\ call[t].op = "flush"
    /\ Variant(inner) = "Other"
    /\ FlushErrOutcome(t)
    /\ UNCHANGED <<ctor, inner, registered, maxLevel, out, todo, hist, flushed, calls>>

\* Faulty variant: swap stores the new destination without taking the mutex
SwapStoreUnlocked(t) ==
    /\ pc[t] = "lock"
    /\ call[t].op = "swap"
    /\ inner' = call[t].buf
    /\ pc' = [pc EXCEPT ![t] = "idle"]
    /\ call' = [call EXCEPT ![t] = NoCall]
    /\ UNCHANGED <<ctor, owner, poisoned, registered, maxLevel, out, todo,
                   hist, flushed, calls>>

\* Faulty variant: swap keeps a custom destination that is already installed
SwapStoreKeepsCustom(t) ==
    /\ pc[t] = "held"
    /\ call[t].op = "swap"
    /\ inner' = IF inner \in Buffers THEN inner ELSE call[t].buf
    /\ Release
    /\ pc' = [pc EXCEPT ![t] = "idle"]
    /\ call' = [call EXCEPT ![t] = NoCall]
    /\ UNCHANGED <<ctor, registered, maxLevel, out, todo, hist, flushed, calls>>

\* Faulty variant: swap also registers the logger with the facade
SwapStoreRegisters(t) ==
    /\ pc[t] = "held"
    /\ call[t].op = "swap"
    /\ inner' = call[t].buf
    /\ registered' = TRUE
    /\ Release
    /\ pc' = [pc EXCEPT ![t] = "idle"]
    /\ call' = [call EXCEPT ![t] = NoCall]
    /\ UNCHANGED <<ctor, maxLevel, out, todo, hist, flushed, calls>>

\* *inner = Inner::Other(Box::new(buffer))
SwapStore(t) ==
    /\ pc[t] = "held"
    /\ call[t].op = "swap"
    /\ inner' = call[t].buf
    /\ Release
    /\ pc' = [pc EXCEPT ![t] = "idle"]
    /\ call' = [call EXCEPT ![t] = NoCall]
    /\ UNCHANGED <<ctor, registered, maxLevel, out, todo, hist,
                   flushed, calls>>

\* The name Debug::fmt prints for the variant
DebugName(variant) ==
    CASE variant = "Stdout" -> "stdout"
      [] variant = "Stderr" -> "stderr"
      [] variant = "Other"  -> "<locked>"

\* match &*self.inner() { ... }; f.debug_tuple("Logger").field(&inner).finish()
FmtRead(t) ==
    /\ pc[t] = "held"
    /\ call[t].op = "fmt"
    /\ DebugName(Variant(inner)) \in {"stdout", "stderr", "<locked>"}
    /\ Release
    /\ pc' = [pc EXCEPT ![t] = "idle"]
    /\ call' = [call EXCEPT ![t] = NoCall]
    /\ UNCHANGED <<ctor, inner, registered, maxLevel, out, todo, hist, flushed, calls>>

-----------------------------------------------------------------------------
(* The facade *)

\* Faulty variant: init_stdout calls log::set_max_level(LevelFilter::Trace)
InitMaxLevelTrace(lvl) == LevelTrace

\* What init_stdout does to the facade's max level filter
InitMaxLevel(lvl) == lvl

\* Faulty variant: a repeated init is accepted and puts the console back
InitStdoutAgain(t) ==
    /\ ctor = "LOGGER"
    /\ pc[t] = "idle"
    /\ registered' = TRUE
    /\ inner' = "Stdout"
    /\ UNCHANGED <<owner, poisoned, maxLevel, out, pc, call, todo, hist,
                   flushed, calls, ctor>>

\* init_stdout(): log::set_logger(&*LOGGER).expect("Cannot initialize the
\* logger!") -- Ok the first time, SetLoggerError afterwards
InitStdout(t) ==
    /\ ctor = "LOGGER"
    /\ pc[t] = "idle"
    /\ IF registered
          THEN /\ pc' = [pc EXCEPT ![t] = "panic_init"]
               /\ UNCHANGED <<registered, maxLevel>>
          ELSE /\ registered' = TRUE
               /\ maxLevel' = InitMaxLevel(maxLevel)
               /\ UNCHANGED pc
    /\ UNCHANGED <<ctor, inner, owner, poisoned, out, call, todo, hist, flushed, calls>>

\* log::set_max_level(filter), called by the host program
SetMaxLevel(t, lvl) ==
    /\ ctor = "LOGGER"
    /\ pc[t] = "idle"
    /\ maxLevel # lvl
    /\ maxLevel' = lvl
    /\ UNCHANGED <<ctor, inner, owner, poisoned, registered, out, pc, call,
                   todo, hist, flushed, calls>>

-----------------------------------------------------------------------------
Next ==
    \E t \in Threads :
        \/ \E lvl \in LevelsOf(t), msg \in Msgs : LogCall(t, lvl, msg)
        \/ FlushCall(t)
        \/ \E b \in Buffers : SwapCall(t, b)
        \/ FmtCall(t)
        \/ Lock(t)
        \/ ClearPoison(t)
        \/ Relock(t)
        \/ LogCompose(t)
        \/ LogWrite(t)
        \/ LogWriteFail(t)
        \/ FlushOk(t)
        \/ FlushErr(t)
        \/ SwapStore(t)
        \/ FmtRead(t)
        \/ InitStdout(t)
        \/ \E lvl \in Filters : SetMaxLevel(t, lvl)

Spec == Init /\ [][Next]_vars

-----------------------------------------------------------------------------
(* What the history says each destination holds *)

\* the line of a record of the history, as log composed it
LineOf(h) == FormatLine(Variant(h.dest), h.level, ThreadName(h.thr), h.msg, h.time)

\* the fragments of the first i records of the history that went to d
RECURSIVE WrittenUpTo(_, _)
WrittenUpTo(d, i) ==
    IF i = 0 THEN <<>>
    ELSE WrittenUpTo(d, i - 1) \o
         (IF hist[i].dest = d THEN SubSeq(LineOf(hist[i]), 1, hist[i].n) ELSE <<>>)

\* number of newline fragments in a sequence of fragments
RECURSIVE Newlines(_)
Newlines(s) ==
    IF s = <<>> THEN 0 ELSE (IF Head(s) = "\n" THEN 1 ELSE 0) + Newlines(Tail(s))

RECURSIVE TotalNewlines(_)
TotalNewlines(ds) ==
    IF ds = {} THEN 0
    ELSE LET d == CHOOSE x \in ds : TRUE
         IN  Newlines(out[d]) + TotalNewlines(ds \ {d})

\* the text of a sequence of fragments
RECURSIVE Join(_)
Join(s) == IF s = <<>> THEN "" ELSE Head(s) \o Join(Tail(s))

\* every call has returned and no thread has died
Quiescent == \A t \in Threads : pc[t] = "idle"

-----------------------------------------------------------------------------
(* Claims *)

\* C1: poison recovery -- after a thread panicked with the guard alive, the
\* next call of log, flush or swap gets the mutex through Logger::inner, clears
\* the poison and completes: no call ever fails or blocks forever in inner.
PoisonRecovery == \A t \in Threads : pc[t] \notin {"deadlock", "panic_relock"}

\* C2: no torn lines -- once all log calls have returned (none failed), the
\* destinations hold exactly one complete newline-terminated line per record,
\* each line contiguous, never fragments of two records interleaved.
NoTornLines ==
    Quiescent =>
        /\ \A i \in 1..Len(hist) : hist[i].n = Len(LineOf(hist[i]))
        /\ \A d \in Dests : out[d] = WrittenUpTo(d, Len(hist))
        /\ TotalNewlines(Dests) = Len(hist)

\* C2 witness: two threads have each logged one record, and both lines are
\* complete in the same destination
TwoLinesWritten ==
    /\ Quiescent
    /\ Len(hist) = 2
    /\ hist[1].thr # hist[2].thr
    /\ hist[1].dest = hist[2].dest
    /\ calls = 2

\* C3: swap atomicity -- every fragment of a logged line is in the destination
\* that was active when its writer took the lock, and the active destination
\* does not change under a writer: no line is split between two destinations.
SwapAtomicity ==
    /\ \A d \in Dests : out[d] = WrittenUpTo(d, Len(hist))
    /\ \A t \in Threads : pc[t] = "write" => hist[call[t].h].dest = inner

\* C3 witness: a writer is in the middle of its line while a swap to another
\* destination waits for the mutex
SwapWaitsForWriter ==
    \E t, u \in Threads :
        /\ pc[t] = "write"
        /\ hist[call[t].h].n >= 1
        /\ pc[u] = "lock"
        /\ call[u].op = "swap"
        /\ call[u].buf # inner

\* C4: mutual exclusion -- at most one thread is at a position where it reads,
\* writes, flushes or replaces the destination, and it is the mutex's owner.
MutualExclusion ==
    /\ Cardinality({t \in Threads : pc[t] \in Holding}) <= 1
    /\ \A t \in Threads : pc[t] \in Holding => owner = t

\* C4 witness: one thread holds the guard while the other is blocked in lock
Contention ==
    \E t, u \in Threads :
        /\ pc[t] = "held"
        /\ owner = t
        /\ pc[u] = "lock"

\* C5: registration is exactly-once -- the state never goes back to
\* unregistered, and an init call made when registered fails at the call site
\* and changes neither the registration nor the active destination.
RegistrationOnce ==
    [][/\ registered => registered'
       /\ \A t \in Threads :
            (registered /\ InitStdout(t)) =>
                /\ pc'[t] = "panic_init"
                /\ inner' = inner
                /\ registered']_vars

\* C5 witness: a second init call has failed
SecondInitFailed ==
    \E t \in Threads : pc[t] = "panic_init" /\ registered /\ inner = "Stdout"

\* C6: after init every swap succeeds, also after earlier write failures.
SwapAlwaysSucceeds ==
    \A t \in Threads :
        (registered /\ call[t].op = "swap") =>
            pc[t] \notin {"deadlock", "panic_relock"}

\* C7: a write failure in log leaves either the complete line or nothing of it
\* (the process being terminated); never a partial line with other threads alive.
WriteFailureOutcome ==
    \A t \in Threads :
        (pc[t] = "panic_io" /\ call[t].op = "log") =>
            hist[call[t].h].n \in {0, Len(LineOf(hist[call[t].h]))}

\* C8: flush is best-effort -- a failed flush is swallowed: it neither aborts
\* the calling thread nor poisons the mutex.
FlushSwallowsErrors ==
    \A t \in Threads : call[t].op = "flush" => pc[t] # "panic_io"

SpecLine(lvl, name, msg, now) ==
    FormatTime(now) \o Color(lvl) \o " " \o name \o " [" \o Label(lvl) \o "]"
        \o RESET_COLOR \o " " \o msg \o "\n"

\* C10: for every destination variant and level the line is time, color, space,
\* thread label, space, [tag], reset, space, message, newline.
UniformLineFormat ==
    \A i \in 1..Len(hist) :
        Join(LineOf(hist[i])) =
            SpecLine(hist[i].level, ThreadName(hist[i].thr), hist[i].msg, hist[i].time)

\* the tag the specification documents for a level
DocumentedTag(lvl) ==
    CASE lvl = LevelInfo  -> "INF"
      [] lvl = LevelDebug -> "DBG"
      [] lvl = LevelError -> "ERR"
      [] lvl = LevelWarn  -> "WRN"
      [] lvl = LevelTrace -> "TRC"

\* the fragment that follows the opening bracket in a line
RECURSIVE TagIn(_)
TagIn(s) ==
    IF Len(s) < 2 THEN ""
    ELSE IF Head(s) = " [" THEN s[2] ELSE TagIn(Tail(s))

\* C11: level-tag mapping -- the tag of a line is INF, DBG, ERR, WRN, TRC for
\* Info, Debug, Error, Warn, Trace, whatever the message, the thread and the
\* destination, and no two levels share a tag.
LevelTagMapping ==
    \A t \in Threads :
        (pc[t] = "write" /\ hist[call[t].h].n = 0) =>
            /\ TagIn(todo[t]) = DocumentedTag(call[t].level)
            /\ \A lvl \in Levels :
                Label(lvl) = TagIn(todo[t]) => lvl = call[t].level

\* C11 witness: the line of a Trace record has been composed for a custom writer
TraceLineComposed ==
    \E t \in Threads :
        /\ pc[t] = "write"
        /\ hist[call[t].h].n = 0
        /\ call[t].level = LevelTrace
        /\ Variant(inner) = "Other"

\* C12: swap changes only the active destination -- no step of a swap call,
\* before or after init, changes the registration state, the severity
\* threshold or what has been written.
SwapFrame ==
    [][\A t \in Threads :
        ((call[t].op = "swap" \/ call'[t].op = "swap") /\ pc'[t] # pc[t]) =>
            /\ registered' = registered
            /\ maxLevel' = maxLevel
            /\ out' = out
            /\ hist' = hist]_vars

\* C12 witness: a swap has replaced the destination of a logger that was never
\* registered
SwappedBeforeInit ==
    /\ ctor = "LOGGER"
    /\ ~registered
    /\ inner \in Buffers
    /\ Quiescent

\* C13: flush calls the writer's flush only for a custom (Other) destination;
\* for Stdout and Stderr it performs no I/O and changes nothing; it never
\* changes the active destination or what has been written.
FlushFrame ==
    [][\A t \in Threads :
        (call[t].op = "flush" /\ pc'[t] # pc[t]) =>
            /\ inner' = inner
            /\ out' = out
            /\ flushed' # flushed =>
                (owner = t /\ Variant(inner) = "Other"
                    /\ flushed' = flushed \cup {inner})
            /\ pc'[t] = "panic_io" => Variant(inner) = "Other"
            /\ (pc[t] = "held" /\ Variant(inner) # "Other") =>
                (pc'[t] = "idle"
                    /\ UNCHANGED <<flushed, poisoned, registered, maxLevel, hist>>)]_vars

\* C13 witness: the active custom writer has been flushed
CustomWriterFlushed == inner \in flushed /\ Quiescent

\* C14: the adapter does no filtering of its own -- enabled is true for every
\* level, and a log call returns only after the complete line of its record,
\* whatever its level, has been written.
NoOwnFiltering ==
    [][/\ \A lvl \in Levels : Enabled(lvl)
       /\ \A t \in Threads :
            (call[t].op = "log" /\ pc[t] # "idle" /\ pc'[t] = "idle") =>
                /\ call[t].h \in 1..Len(hist')
                /\ hist'[call[t].h].thr = t
                /\ hist'[call[t].h].level = call[t].level
                /\ hist'[call[t].h].n = Len(LineOf(hist'[call[t].h]))]_vars

\* C14 witness: the line of a record of the least severe level, Trace, is
\* complete in the destination and its log call has returned
TraceLineWritten ==
    \E i \in 1..Len(hist) :
        /\ hist[i].level = LevelTrace
        /\ hist[i].n = Len(LineOf(hist[i]))
        /\ pc[hist[i].thr] = "idle"

\* C15 (as claimed): the line is fully composed before exclusive access is
\* acquired, so a log call that has the guard already has its line.
ComposedBeforeLock ==
    \A t \in Threads :
        (call[t].op = "log" /\ pc[t] = "held") => todo[t] # <<>>

\* C15 (amended): nothing of the line exists before the guard is acquired; the
\* line is composed with the guard held, for the destination variant read
\* under the guard, and reaches that destination fragment by fragment inside
\* the critical section.
ComposedUnderLock ==
    \A t \in Threads :
        /\ pc[t] = "lock" => todo[t] = <<>>
        /\ todo[t] # <<>> => (pc[t] = "write" /\ owner = t)
        /\ pc[t] = "write" =>
            /\ hist[call[t].h].dest = inner
            /\ SubSeq(LineOf(hist[call[t].h]), 1, hist[call[t].h].n) \o todo[t]
                    = LineOf(hist[call[t].h])

\* C15 witness: one thread is in the middle of its line, with the guard, while
\* another log call waits for the mutex with nothing composed
MidLineUnderLock ==
    \E t, u \in Threads :
        /\ pc[t] = "write"
        /\ owner = t
        /\ hist[call[t].h].n > 0
        /\ todo[t] # <<>>
        /\ pc[u] = "lock"
        /\ call[u].op = "log"
        /\ todo[u] = <<>>

\* C16: deadlock freedom -- no thread ever waits for the sink mutex while it
\* holds the mutex itself, so no call waits forever.
NoSelfWait ==
    \A t \in Threads : ~(owner = t /\ pc[t] \in {"relock", "deadlock"})

\* C17: exactly one destination is active -- the global logger's is Stdout
\* until a swap is called, init does not change it, it changes only when a swap
\* stores its buffer under the guard, and it is then exactly that buffer.
DestinationHistory ==
    [][/\ (ctor = "LOGGER" /\ calls = 0) => inner = "Stdout"
       /\ registered' # registered => inner' = inner
       /\ inner' # inner =>
            \E t \in Threads :
                /\ pc[t] = "held"
                /\ owner = t
                /\ call[t].op = "swap"
       /\ \A t \in Threads :
            (pc[t] = "held" /\ call[t].op = "swap" /\ pc'[t] # pc[t]) =>
                inner' = call[t].buf]_vars

\* C17 witness: a second swap has replaced a custom destination that was
\* written to
LastSwapWins ==
    /\ inner = "B2"
    /\ out["B1"] # <<>>
    /\ registered
    /\ Quiescent

\* C18: the mutex is released on every exit path -- a thread that is not
\* inside log, flush, swap or fmt (it is idle or has panicked) holds no guard,
\* and the mutex's owner is always a thread inside one of them.
GuardReleased ==
    /\ \A t \in Threads : pc[t] \notin (Holding \cup {"lock"}) => owner # t
    /\ owner # NoThread => pc[owner] \in Holding

\* C18 witness: a thread has panicked on a failed write or flush, and the
\* mutex is free and poisoned
PanickedAndReleased ==
    \E t \in Threads : pc[t] = "panic_io" /\ owner = NoThread /\ poisoned

\* C19: per-thread order -- when a thread logs two records, the first line is
\* complete before the second is begun, and in a common destination the first
\* line lies before the second, whatever other threads log in between: a
\* thread begins a record only when all its earlier records are complete,
\* every fragment written is the next fragment of the writing thread's
\* current record, and it is put at the end of the destination, whose earlier
\* content stays in place.
PerThreadOrder ==
    [][/\ Len(hist') >= Len(hist)
       /\ \A i \in 1..Len(hist) :
            /\ hist'[i].thr = hist[i].thr
            /\ hist'[i].dest = hist[i].dest
            /\ hist'[i].n >= hist[i].n
       /\ Len(hist') > Len(hist) =>
            /\ Len(hist') = Len(hist) + 1
            /\ hist'[Len(hist')].n = 0
            /\ \A i \in 1..Len(hist) :
                hist[i].thr = hist'[Len(hist')].thr =>
                    hist[i].n = Len(LineOf(hist[i]))
       /\ \A d \in Dests :
            out'[d] # out[d] =>
                \E t \in Threads :
                    LET h == call[t].h
                    IN  /\ call[t].op = "log"
                        /\ h \in 1..Len(hist)
                        /\ hist[h].thr = t
                        /\ hist[h].dest = d
                        /\ hist[h].n < Len(LineOf(hist[h]))
                        /\ hist'[h].n = hist[h].n + 1
                        /\ out'[d] = Append(out[d], LineOf(hist[h])[hist[h].n + 1])
      ]_vars

\* C19 witness: a thread has logged two records to one destination and the
\* other thread has logged one in between
LogsInterleaved ==
    /\ Len(hist) = 3
    /\ hist[1].thr = hist[3].thr
    /\ hist[2].thr # hist[1].thr
    /\ hist[1].dest = hist[2].dest
    /\ hist[2].dest = hist[3].dest
    /\ Quiescent

====
